---- MODULE Spec2Model ----
(***************************************************************************)
(* Model of the two scraping binaries of scraprs:                          *)
(*   src/bin/leetcode_potd.rs   (the POTD tool, a browser-driven scraper)   *)
(*   src/bin/wikipedia_links.rs (the wiki tool, a blocking HTTP scraper)    *)
(* One run of one binary is one behaviour.  Text is a tuple of one-letter   *)
(* strings, Option<T> is a tuple of zero or one element, and a u32 is a     *)
(* pair of 16-bit limbs <<high, low>>.                                      *)
(***************************************************************************)
EXTENDS Integers, Sequences, FiniteSets, TLC

VARIABLES
    tool,           \* which binary runs: "potd" or "wiki"
    pc,             \* position of the run
    result,         \* what the process reports: "none", "ok", "err", "panic"
    failedAt,       \* the step whose failure ended the run ("none" if none)
    \* ---- POTD tool: environment
    outputArg,      \* the path of argv[1]: "nonexistent" or "exists"
    bodyClass,      \* the page body has a non-empty class attribute
    disabled,       \* the table container carries pointer-events-none
    firstRow,       \* the row the row query returns first
    marker,         \* the rows that contain the marker icon
    \* ---- POTD tool: program
    sessionCreated, \* WebDriver::new returned Ok
    quitIssued,     \* driver.quit() was called
    res,            \* the result of scraping(): "none", "ok", "err"
    table,          \* selector the table handle was found by ("" before)
    first_problem,  \* the row handle of line 134 (None before)
    handed,         \* the row passed to scrape_potd, with what line 138 saw
    title,          \* inner_html of the problem anchor (None before)
    number,         \* scrape_potd's local number (None before)
    name,           \* scrape_potd's local name (None before)
    url,            \* scrape_potd's local url (None before)
    solution_anchor,\* "unqueried", "absent" or "present"
    solution_href,  \* the href read from the solution anchor (None before)
    potd_info,      \* the PotdInfo scrape_potd returned (None before)
    fileStatus,     \* output file: "unchanged", "written", "truncated"
    fileContent,    \* what was written when fileStatus = "written"
    \* ---- POTD tool: history of the session traffic
    issued,         \* the page operations issued so far
    errors,         \* the page/session operations that returned Err
    late,           \* the page operations issued after some Err
    lateFatal,      \* a page operation was issued after an Err other than
                    \* the one of the disabled-table lookup
    steps,          \* the discovery observations that came out true, in order
    \* ---- wiki tool
    url_ref,        \* argv[1] (None when missing)
    httpIssued,     \* the HTTP GET was issued
    document,       \* the parsed page (None before)
    links,          \* the value fetch_wiki_links returned (None before)
    stdout          \* what was printed (None when nothing)

vars == << tool, pc, result, failedAt, outputArg, bodyClass, disabled, firstRow,
           marker, sessionCreated, quitIssued, res, table, first_problem, handed,
           title, number, name, url, solution_anchor, solution_href, potd_info,
           fileStatus, fileContent, issued, errors, late, lateFatal, steps,
           url_ref, httpIssued, document, links, stdout >>

potdVars == << outputArg, bodyClass, disabled, firstRow, marker, sessionCreated,
               quitIssued, res, table, first_problem, handed, title, number, name,
               url, solution_anchor, solution_href, potd_info, fileStatus,
               fileContent, issued, errors, late, lateFatal, steps >>

wikiVars == << url_ref, httpIssued, document, links, stdout >>

pageVars == << bodyClass, disabled, firstRow, marker >>

-----------------------------------------------------------------------------
(* Option<T> *)
None == << >>
Some(x) == << x >>

(* Bounds of the model *)
MaxAnchors == 3
NumRows == 2

Rows == 1 .. NumRows

-----------------------------------------------------------------------------
(* Text *)

LEETCODE_DOMAIN ==
    << "h","t","t","p","s",":","/","/","l","e","e","t","c","o","d","e",".","c","o","m" >>

Format(base, rest) == base \o rest

RECURSIVE FindLastSep(_, _)
FindLastSep(s, i) ==
    IF i < 1 THEN 0
    ELSE IF i + 1 <= Len(s) /\ s[i] = "." /\ s[i + 1] = " " THEN i
    ELSE FindLastSep(s, i - 1)

(* SplitOnce as str::rsplit_once would do it: on the last ". " *)
SplitOnce_Last(s) ==
    LET i == FindLastSep(s, Len(s))
    IN  IF i = 0 THEN << >>
        ELSE << << SubSeq(s, 1, i - 1), SubSeq(s, i + 2, Len(s)) >> >>

RECURSIVE FindSep(_, _)
(* index of the first ". " in s at or after i, 0 when there is none *)
FindSep(s, i) ==
    IF i + 1 > Len(s) THEN 0
    ELSE IF s[i] = "." /\ s[i + 1] = " " THEN i
    ELSE FindSep(s, i + 1)

(* str::split_once(". "): None, or Some(<<before, after>>) *)
SplitOnce(s) ==
    LET i == FindSep(s, 1)
    IN  IF i = 0 THEN None
        ELSE Some(<< SubSeq(s, 1, i - 1), SubSeq(s, i + 2, Len(s)) >>)

DigitChars == { "0", "1", "2", "3", "4", "5", "6", "7", "8", "9" }

DigitValue(c) ==
    CASE c = "0" -> 0 [] c = "1" -> 1 [] c = "2" -> 2 [] c = "3" -> 3 [] c = "4" -> 4
      [] c = "5" -> 5 [] c = "6" -> 6 [] c = "7" -> 7 [] c = "8" -> 8 [] c = "9" -> 9

LimbBase == 65536

ParseErr == [ok |-> FALSE, val |-> << 0, 0 >>]

RECURSIVE ParseDigits(_, _)
(* acc * 10 + digit per character, checked against the u32 range *)
ParseDigits(s, acc) ==
    IF s = << >> THEN [ok |-> TRUE, val |-> acc]
    ELSE IF Head(s) \notin DigitChars THEN ParseErr
    ELSE LET lo == acc[2] * 10 + DigitValue(Head(s))
             hi == acc[1] * 10 + (lo \div LimbBase)
         IN  IF hi >= LimbBase THEN ParseErr
             ELSE ParseDigits(Tail(s), << hi, lo % LimbBase >>)

(* str::parse::<u32>(): empty, a lone sign, a non-digit and overflow are errors; *)
(* one leading "+" is accepted, "-" is not *)
ParseU32(s) ==
    IF s = << >> THEN ParseErr
    ELSE LET digits == IF Head(s) = "+" THEN Tail(s) ELSE s
         IN  IF digits = << >> THEN ParseErr ELSE ParseDigits(digits, << 0, 0 >>)

WikiPrefix == << "/", "w", "i", "k", "i", "/" >>

(* WIKI_REGEX.is_match: ^/wiki/(?P<name>[^"]+)$ *)
WIKI_REGEX_is_match(s) ==
    /\ Len(s) > Len(WikiPrefix)
    /\ SubSeq(s, 1, Len(WikiPrefix)) = WikiPrefix
    /\ \A i \in (Len(WikiPrefix) + 1) .. Len(s) : s[i] # "\""

-----------------------------------------------------------------------------
(* The POTD tool: inputs and page *)

OutputArgs == { "nonexistent", "exists" }

(* texts a title can start with, before the separator *)
NumberTexts ==
    { << >>, << "7" >>, << "0", "0", "7" >>, << "+", "5" >>, << "-", "1" >>,
      << "x", "1" >>,
      << "4", "2", "9", "4", "9", "6", "7", "2", "9", "5" >>,
      << "4", "2", "9", "4", "9", "6", "7", "2", "9", "6" >>,
      << "0", "4", "2", "9", "4", "9", "6", "7", "2", "9", "5" >>,
      << "9", "9", "9", "9", "9", "9", "9", "9", "9", "9", "9" >> }

(* texts a title can end with, after the separator *)
NameTexts ==
    { << >>, << "A" >>, << "A", ".", " ", "B" >> }

Separator == << ".", " " >>

Separators == { Separator, << "." >>, << >> }

Titles == { n \o s \o t : n \in NumberTexts, s \in Separators, t \in NameTexts }

Hrefs == { << "/", "p", "/", "a" >>, << >> }

OptHrefs == { None } \cup { Some(h) : h \in Hrefs }

DisabledTableSelector == "div:has(div[role='table']).pointer-events-none"
TableSelector == "div:has(div[role='table'])"
WaitMarkerSelector == "div[role='cell'] > a > svg"
VerifyMarkerSelector == "div[role='cell'] > a > svg"

(* the page's answer to row.query(By::Css(sel)).exists(): only the featured row *)
(* holds an svg inside a cell's anchor, every row holds a cell with an anchor   *)
RowExists(row, sel) ==
    CASE sel = "div[role='cell'] > a > svg" -> row \in marker
      [] sel = "div[role='cell'] > a" -> TRUE
      [] OTHER -> FALSE

(* the page operations of the row discovery, lines 75-141 *)
DiscoveryOps ==
    { "goto", "find_body", "wait_body", "find_disabled", "wait_table", "find_table",
      "assert_table", "find_rowgroup", "wait_marker", "find_first", "assert_marker" }

(* the page operations whose Err scraping() propagates with `?` *)
FallibleOps ==
    { "goto", "find_body", "wait_body", "wait_table", "find_table", "assert_table",
      "find_rowgroup", "wait_marker", "find_first", "assert_marker",
      "sp_find_anchor", "sp_inner_html", "sp_href", "sp_find_cell",
      "sp_query_solution", "sp_solution_href" }

-----------------------------------------------------------------------------
(* The POTD tool: bookkeeping shared by the steps *)

discoveryVars == << table, first_problem, handed >>

recordVars == << title, number, name, url, solution_anchor, solution_href, potd_info >>

(* a page operation goes out to the session *)
Issue(op) ==
    /\ issued' = issued \cup { op }
    /\ late' = IF errors # { } THEN late \cup { op } ELSE late
    /\ lateFatal' = (lateFatal \/ (errors \ { "find_disabled" }) # { })

Observed(step, sel) ==
    LET o == [step |-> step, sel |-> sel]
    IN  IF \E i \in 1 .. Len(steps) : steps[i] = o THEN steps ELSE Append(steps, o)

(* frame of a step of scraping(): everything but pc, the data, the file, the *)
(* traffic history and the discovery steps *)
ScrapingFrame ==
    UNCHANGED << tool, outputArg, pageVars, sessionCreated, quitIssued, wikiVars >>

(* operation op returned Ok and the run moves on to next *)
Proceed(op, next) ==
    /\ Issue(op)
    /\ pc' = next
    /\ UNCHANGED << result, failedAt, res, errors, fileStatus, fileContent >>
    /\ ScrapingFrame

(* a failed assert!/expect: the panic unwinds out of main *)
Panic(op) ==
    /\ pc' = "done"
    /\ result' = "panic"
    /\ failedAt' = op
    /\ UNCHANGED << res, errors >>
    /\ ScrapingFrame

-----------------------------------------------------------------------------
(* The POTD tool: main, before scraping() *)

Main_SetHeadless ==
    /\ tool = "potd" /\ pc = "set_headless"
    /\ \/ /\ pc' = "new_driver"
          /\ UNCHANGED << result, failedAt >>
       \/ /\ pc' = "done"
          /\ result' = "err"
          /\ failedAt' = "set_headless"
    /\ UNCHANGED << tool, potdVars, wikiVars >>

Main_NewDriver ==
    /\ tool = "potd" /\ pc = "new_driver"
    /\ \/ /\ sessionCreated' = TRUE
          /\ pc' = "goto"
          /\ UNCHANGED << result, failedAt, errors >>
       \/ /\ pc' = "done"
          /\ result' = "err"
          /\ failedAt' = "new_driver"
          /\ errors' = errors \cup { "new_driver" }
          /\ UNCHANGED sessionCreated
    /\ UNCHANGED << tool, outputArg, pageVars, quitIssued, res, discoveryVars,
                    recordVars, fileStatus, fileContent, issued, late, lateFatal,
                    steps, wikiVars >>

(* the page under the browser changes on its own; once the row is handed to *)
(* scrape_potd no step reads these variables again *)
PageChanges ==
    /\ tool = "potd" /\ sessionCreated /\ pc \in DiscoveryOps
    /\ bodyClass' \in BOOLEAN
    /\ disabled' \in BOOLEAN
    /\ firstRow' \in Rows
    /\ marker' \in SUBSET Rows
    /\ pageVars' # pageVars
    /\ UNCHANGED << tool, pc, result, failedAt, outputArg, sessionCreated, quitIssued,
                    res, discoveryVars, recordVars, fileStatus, fileContent, issued,
                    errors, late, lateFatal, steps, wikiVars >>

-----------------------------------------------------------------------------
(* The POTD tool: scraping(), lines 74-143 *)

Scraping_Goto ==
    /\ tool = "potd" /\ pc = "goto"
    /\ Proceed("goto", "find_body")
    /\ UNCHANGED << discoveryVars, recordVars, steps >>

Scraping_FindBody ==
    /\ tool = "potd" /\ pc = "find_body"
    /\ Proceed("find_body", "wait_body")
    /\ UNCHANGED << discoveryVars, recordVars, steps >>

(* what the condition closure of the wait at pc reads off the page *)
WaitCondition(at) ==
    CASE at = "wait_body" -> bodyClass
      [] at = "wait_table" -> ~disabled
      [] at = "wait_marker" -> RowExists(firstRow, WaitMarkerSelector)

(* a poll of a wait whose condition came out false: the wait polls again *)
Scraping_WaitPolls ==
    /\ tool = "potd" /\ pc \in { "wait_body", "wait_table", "wait_marker" }
    /\ ~WaitCondition(pc)
    /\ pc \notin issued
    /\ Proceed(pc, pc)
    /\ UNCHANGED << discoveryVars, recordVars, steps >>

(* the wait returns Ok on the poll that sees a non-empty class *)
Scraping_WaitBody ==
    /\ tool = "potd" /\ pc = "wait_body"
    /\ WaitCondition("wait_body")
    /\ Proceed("wait_body", "find_disabled")
    /\ steps' = Observed("body_hydrated", "body")
    /\ UNCHANGED << discoveryVars, recordVars >>

(* lines 87-108: the only Err that is matched instead of propagated *)
Scraping_FindDisabledTable ==
    /\ tool = "potd" /\ pc = "find_disabled"
    /\ Issue("find_disabled")
    /\ \/ /\ disabled
          /\ table' = DisabledTableSelector
          /\ pc' = "wait_table"
          /\ UNCHANGED errors
       \/ /\ errors' = errors \cup { "find_disabled" }
          /\ pc' = "find_table"
          /\ UNCHANGED table
    /\ UNCHANGED << result, failedAt, res, fileStatus, fileContent, first_problem,
                    handed, recordVars, steps >>
    /\ ScrapingFrame

Scraping_WaitTable ==
    /\ tool = "potd" /\ pc = "wait_table"
    /\ WaitCondition("wait_table")
    /\ Proceed("wait_table", "assert_table")
    /\ steps' = Observed("table_enabled", table)
    /\ UNCHANGED << discoveryVars, recordVars >>

Scraping_FindTable ==
    /\ tool = "potd" /\ pc = "find_table"
    /\ Proceed("find_table", "assert_table")
    /\ table' = TableSelector
    /\ UNCHANGED << first_problem, handed, recordVars, steps >>

(* Scraping_AssertTable without the assert of lines 110-114 *)
Scraping_AssertTable_NoAssert ==
    /\ tool = "potd" /\ pc = "assert_table"
    /\ pc' = "find_rowgroup"
    /\ UNCHANGED << result, failedAt, res, errors, issued, late, lateFatal, steps,
                    discoveryVars, recordVars, fileStatus, fileContent >>
    /\ ScrapingFrame

(* lines 110-114 *)
Scraping_AssertTable ==
    /\ tool = "potd" /\ pc = "assert_table"
    /\ Issue("assert_table")
    /\ IF ~disabled
       THEN /\ pc' = "find_rowgroup"
            /\ steps' = Observed("table_enabled", table)
            /\ UNCHANGED << result, failedAt, res, errors >>
            /\ ScrapingFrame
       ELSE /\ Panic("assert_table")
            /\ UNCHANGED steps
    /\ UNCHANGED << discoveryVars, recordVars, fileStatus, fileContent >>

Scraping_FindRowgroup ==
    /\ tool = "potd" /\ pc = "find_rowgroup"
    /\ Proceed("find_rowgroup", "wait_marker")
    /\ UNCHANGED << discoveryVars, recordVars, steps >>

(* lines 118-132: Ok on the poll whose first row holds the marker *)
Scraping_WaitMarker ==
    /\ tool = "potd" /\ pc = "wait_marker"
    /\ WaitCondition("wait_marker")
    /\ Proceed("wait_marker", "find_first")
    /\ steps' = Observed("marker_waited", WaitMarkerSelector)
    /\ UNCHANGED << discoveryVars, recordVars >>

(* line 134 *)
Scraping_FindFirstProblem ==
    /\ tool = "potd" /\ pc = "find_first"
    /\ Proceed("find_first", "assert_marker")
    /\ first_problem' = Some(firstRow)
    /\ UNCHANGED << table, handed, recordVars, steps >>

(* Scraping_AssertMarker without the assert of lines 136-141 *)
Scraping_AssertMarker_NoAssert ==
    /\ tool = "potd" /\ pc = "assert_marker"
    /\ pc' = "sp_find_anchor"
    /\ handed' = << [row |-> first_problem[1], marked |-> first_problem[1] \in marker] >>
    /\ UNCHANGED << result, failedAt, res, errors, issued, late, lateFatal, steps,
                    table, first_problem, recordVars, fileStatus, fileContent >>
    /\ ScrapingFrame

(* lines 136-143: the assert, then the call of scrape_potd(first_problem) *)
Scraping_AssertMarker ==
    /\ tool = "potd" /\ pc = "assert_marker"
    /\ Issue("assert_marker")
    /\ IF RowExists(first_problem[1], VerifyMarkerSelector)
       THEN /\ pc' = "sp_find_anchor"
            /\ handed' = Some([row |-> first_problem[1],
                               marked |-> first_problem[1] \in marker])
            /\ steps' = Observed("marker_verified", VerifyMarkerSelector)
            /\ UNCHANGED << result, failedAt, res, errors >>
            /\ ScrapingFrame
       ELSE /\ Panic("assert_marker")
            /\ UNCHANGED << handed, steps >>
    /\ UNCHANGED << table, first_problem, recordVars, fileStatus, fileContent >>

(* Scraping_OpFails with the failed operation issued again instead of returned *)
Scraping_OpFails_Retry ==
    /\ tool = "potd" /\ pc \in FallibleOps
    /\ Issue(pc)
    /\ errors' = errors \cup { pc }
    /\ UNCHANGED << pc, res, failedAt, result, discoveryVars, recordVars, fileStatus,
                    fileContent, steps >>
    /\ ScrapingFrame

(* Scraping_OpFails with the output file created before scraping ends *)
Scraping_OpFails_FileOpened ==
    /\ tool = "potd" /\ pc \in FallibleOps
    /\ Issue(pc)
    /\ errors' = errors \cup { pc }
    /\ res' = "err"
    /\ failedAt' = pc
    /\ pc' = "quit"
    /\ fileStatus' = "truncated"
    /\ UNCHANGED << result, discoveryVars, recordVars, fileContent, steps >>
    /\ ScrapingFrame

(* any propagated Err (a failed lookup, read or wait, a wait timeout): scraping() *)
(* returns it to main *)
Scraping_OpFails ==
    /\ tool = "potd" /\ pc \in FallibleOps
    /\ Issue(pc)
    /\ errors' = errors \cup { pc }
    /\ res' = "err"
    /\ failedAt' = pc
    /\ pc' = "quit"
    /\ UNCHANGED << result, discoveryVars, recordVars, fileStatus, fileContent, steps >>
    /\ ScrapingFrame

-----------------------------------------------------------------------------
(* The POTD tool: scrape_potd(), lines 26-71 *)

(* the step returned Ok and did not panic *)
Continue(next) ==
    /\ pc' = next
    /\ UNCHANGED << result, failedAt, res, errors >>
    /\ ScrapingFrame

ScrapePotd_FindAnchor ==
    /\ tool = "potd" /\ pc = "sp_find_anchor"
    /\ Proceed("sp_find_anchor", "sp_inner_html")
    /\ UNCHANGED << discoveryVars, recordVars, steps >>

(* lines 32-36: read the title, split it once on ". ", parse the number *)
ScrapePotd_InnerHtml ==
    /\ tool = "potd" /\ pc = "sp_inner_html"
    /\ Issue("sp_inner_html")
    /\ \E t \in Titles :
          /\ title' = Some(t)
          /\ LET split == SplitOnce(t)
             IN  IF split = None
                 THEN /\ Panic("sp_split")
                      /\ UNCHANGED << number, name >>
                 ELSE LET parsed == ParseU32(split[1][1])
                      IN  IF ~parsed.ok
                          THEN /\ Panic("sp_parse")
                               /\ UNCHANGED << number, name >>
                          ELSE /\ number' = Some(parsed.val)
                               /\ name' = Some(split[1][2])
                               /\ Continue("sp_href")
    /\ UNCHANGED << discoveryVars, url, solution_anchor, solution_href, potd_info,
                    fileStatus, fileContent, steps >>

(* lines 38-44 *)
ScrapePotd_Href ==
    /\ tool = "potd" /\ pc = "sp_href"
    /\ Issue("sp_href")
    /\ \E h \in OptHrefs :
          IF h = None
          THEN /\ Panic("sp_href")
               /\ UNCHANGED url
          ELSE /\ url' = Some(Format(LEETCODE_DOMAIN, h[1]))
               /\ Continue("sp_find_cell")
    /\ UNCHANGED << discoveryVars, title, number, name, solution_anchor, solution_href,
                    potd_info, fileStatus, fileContent, steps >>

(* line 46 *)
ScrapePotd_FindSolutionCell ==
    /\ tool = "potd" /\ pc = "sp_find_cell"
    /\ Proceed("sp_find_cell", "sp_query_solution")
    /\ UNCHANGED << discoveryVars, recordVars, steps >>

PotdInfo(n, nm, u, s) == [number |-> n, name |-> nm, url |-> u, solution_url |-> s]

(* ScrapePotd_QuerySolution with a missing anchor turned into an empty text *)
ScrapePotd_QuerySolution_EmptyText ==
    /\ tool = "potd" /\ pc = "sp_query_solution"
    /\ \/ /\ solution_anchor' = "present"
          /\ UNCHANGED potd_info
          /\ Proceed("sp_query_solution", "sp_solution_href")
       \/ /\ solution_anchor' = "absent"
          /\ potd_info' = << PotdInfo(number[1], name[1], url[1], << << >> >>) >>
          /\ Proceed("sp_query_solution", "write")
    /\ UNCHANGED << discoveryVars, title, number, name, url, solution_href, steps >>

(* lines 49-52, and for a missing anchor lines 62-70 *)
ScrapePotd_QuerySolution ==
    /\ tool = "potd" /\ pc = "sp_query_solution"
    /\ \/ /\ solution_anchor' = "present"
          /\ UNCHANGED potd_info
          /\ Proceed("sp_query_solution", "sp_solution_href")
       \/ /\ solution_anchor' = "absent"
          /\ potd_info' = Some(PotdInfo(number[1], name[1], url[1], None))
          /\ Proceed("sp_query_solution", "write")
    /\ UNCHANGED << discoveryVars, title, number, name, url, solution_href, steps >>

(* lines 55-61, then lines 65-70 *)
ScrapePotd_SolutionHref ==
    /\ tool = "potd" /\ pc = "sp_solution_href"
    /\ Issue("sp_solution_href")
    /\ \E h \in OptHrefs :
          /\ solution_href' = h
          /\ IF h = None
             THEN /\ Panic("sp_solution_href")
                  /\ UNCHANGED potd_info
             ELSE /\ potd_info' = Some(PotdInfo(number[1], name[1], url[1],
                                                Some(Format(LEETCODE_DOMAIN, h[1]))))
                  /\ Continue("write")
    /\ UNCHANGED << discoveryVars, title, number, name, url, solution_anchor,
                    fileStatus, fileContent, steps >>

-----------------------------------------------------------------------------
(* The POTD tool: the sink, lines 145-161, and the end of main *)

DateNow == << "Y", "Y", "Y", "Y", "M", "M", "D", "D" >>

(* toml::to_string_pretty(&potd_info) parsed back: a struct field that is None *)
(* is left out by the serializer *)
SerializedKeys(info) ==
    { "number", "name", "url" } \cup
        (IF info.solution_url = None THEN { } ELSE { "solution_url" })

TomlValue(info, k) ==
    IF k = "solution_url" THEN info.solution_url[1] ELSE info[k]

(* lines 145-156 *)
TomlDocument(info) ==
    LET fields == [k \in SerializedKeys(info) |-> TomlValue(info, k)]
        dated  == [k \in DOMAIN fields \cup { "date" } |->
                      IF k = "date" THEN DateNow ELSE fields[k]]
    IN  [potd |-> dated]

(* lines 145-161; OUTPUT_PATH is evaluated at its first use, on line 158 *)
Scraping_Write ==
    /\ tool = "potd" /\ pc = "write"
    /\ IF outputArg # "exists"
       THEN /\ Panic("output_path")
            /\ UNCHANGED << fileStatus, fileContent >>
       ELSE \/ /\ fileStatus' = "written"
               /\ fileContent' = TomlDocument(potd_info[1])
               /\ res' = "ok"
               /\ pc' = "quit"
               /\ UNCHANGED << result, failedAt, errors >>
               /\ ScrapingFrame
            \/ /\ fileStatus' \in { "unchanged", "truncated" }
               /\ UNCHANGED fileContent
               /\ Panic("write")
    /\ UNCHANGED << discoveryVars, recordVars, issued, late, lateFatal, steps >>

(* lines 171-175 *)
Main_Quit ==
    /\ tool = "potd" /\ pc = "quit"
    /\ quitIssued' = TRUE
    /\ pc' = "done"
    /\ \/ /\ result' = res
          /\ UNCHANGED << failedAt, errors >>
       \/ /\ result' = "err"
          /\ errors' = errors \cup { "quit" }
          /\ failedAt' = IF failedAt = "none" THEN "quit" ELSE failedAt
    /\ UNCHANGED << tool, outputArg, pageVars, sessionCreated, res, discoveryVars,
                    recordVars, fileStatus, fileContent, issued, late, lateFatal,
                    steps, wikiVars >>

-----------------------------------------------------------------------------
(* The wiki tool *)

WikiArgs ==
    { None,
      Some(<< "/", "w", "i", "k", "i", "/", "R" >>),
      Some(<< "/", "w", "i", "k", "i", "/" >>),
      Some(<< "/", "w", "i", "k", "i", "/", "a", "\"", "b" >>),
      Some(<< "/", "w", "i", "k", "/", "R" >>),
      Some(<< "x", "/", "w", "i", "k", "i", "/", "R" >>),
      Some(<< "h","t","t","p","s",":","/","/","e","n",".","w","i","k","i","p","e","d",
              "i","a",".","o","r","g","/","w","i","k","i","/","R","u","s","t" >>) }

(* an anchor of the fetched page: whether it lies in div#bodyContent, whether it *)
(* descends from a p, and its href attribute *)
Anchor(c, p, h) == [inContent |-> c, inP |-> p, href |-> h]

AnchorKinds ==
    { Anchor(TRUE, TRUE, Some(<< "/", "w", "i", "k", "i", "/", "O" >>)),
      Anchor(TRUE, TRUE, Some(<< "/", "w", "i", "k", "i", "/", "R" >>)),
      Anchor(TRUE, TRUE, Some(<< "#", "c" >>)),
      Anchor(TRUE, TRUE, None),
      Anchor(TRUE, FALSE, Some(<< "/", "w", "i", "k", "i", "/", "T" >>)),
      Anchor(FALSE, TRUE, Some(<< "/", "w", "i", "k", "i", "/", "N" >>)) }

AnchorSeqs == UNION { [1 .. n -> AnchorKinds] : n \in 0 .. MaxAnchors }

Documents == [bodyContent : BOOLEAN, anchors : AnchorSeqs]

RECURSIVE SelectAnchors(_)
(* content_div.select("p a[href]"), in document order *)
SelectAnchors(as) ==
    IF as = << >> THEN << >>
    ELSE IF Head(as).inContent /\ Head(as).inP /\ Head(as).href # None
         THEN << Head(as) >> \o SelectAnchors(Tail(as))
         ELSE SelectAnchors(Tail(as))

RECURSIVE MapHref(_)
(* .map(|link_tag| link_tag.value().attr("href").expect(..).to_string()) *)
MapHref(as) ==
    IF as = << >> THEN << >> ELSE << Head(as).href[1] >> \o MapHref(Tail(as))

(* FilterWiki keeping every href *)
FilterWiki_KeepAll(hs) == hs

RECURSIVE FilterWiki(_)
(* .filter(|link| WIKI_REGEX.is_match(link)) *)
FilterWiki(hs) ==
    IF hs = << >> THEN << >>
    ELSE IF WIKI_REGEX_is_match(Head(hs))
         THEN << Head(hs) >> \o FilterWiki(Tail(hs))
         ELSE FilterWiki(Tail(hs))

(* lines 46-56 *)
CollectLinks(doc) == FilterWiki(MapHref(SelectAnchors(doc.anchors)))

WikiFrame == UNCHANGED << tool, potdVars >>

WikiPanic(at) ==
    /\ pc' = "done"
    /\ result' = "panic"
    /\ failedAt' = at

(* lines 62-64 *)
WikiMain_Args ==
    /\ tool = "wiki" /\ pc = "w_args"
    /\ IF url_ref = None
       THEN WikiPanic("w_args")
       ELSE /\ pc' = "w_assert"
            /\ UNCHANGED << result, failedAt >>
    /\ UNCHANGED wikiVars
    /\ WikiFrame

(* FetchWikiLinks_Assert without the assert of lines 29-32 *)
FetchWikiLinks_Assert_NoAssert ==
    /\ tool = "wiki" /\ pc = "w_assert"
    /\ pc' = "w_get"
    /\ UNCHANGED << result, failedAt, wikiVars >>
    /\ WikiFrame

(* lines 29-32 *)
FetchWikiLinks_Assert ==
    /\ tool = "wiki" /\ pc = "w_assert"
    /\ IF WIKI_REGEX_is_match(url_ref[1])
       THEN /\ pc' = "w_get"
            /\ UNCHANGED << result, failedAt >>
       ELSE WikiPanic("w_assert")
    /\ UNCHANGED wikiVars
    /\ WikiFrame

(* lines 35-36: the GET, then the body text, each propagated with `?` *)
FetchWikiLinks_Get ==
    /\ tool = "wiki" /\ pc = "w_get"
    /\ httpIssued' = TRUE
    /\ \/ /\ \E doc \in Documents : document' = Some(doc)
          /\ pc' = "w_select"
          /\ UNCHANGED << result, failedAt >>
       \/ /\ pc' = "done"
          /\ result' = "err"
          /\ failedAt' = "w_get"
          /\ UNCHANGED document
    /\ UNCHANGED << url_ref, links, stdout >>
    /\ WikiFrame

(* lines 38-58 *)
FetchWikiLinks_Select ==
    /\ tool = "wiki" /\ pc = "w_select"
    /\ IF document[1].bodyContent
       THEN /\ links' = Some(CollectLinks(document[1]))
            /\ pc' = "w_print"
            /\ UNCHANGED << result, failedAt >>
       ELSE /\ WikiPanic("w_select")
            /\ UNCHANGED links
    /\ UNCHANGED << url_ref, httpIssued, document, stdout >>
    /\ WikiFrame

(* lines 66-69 *)
WikiMain_Print ==
    /\ tool = "wiki" /\ pc = "w_print"
    /\ stdout' = Some(links[1])
    /\ pc' = "done"
    /\ result' = "ok"
    /\ UNCHANGED << failedAt, url_ref, httpIssued, document, links >>
    /\ WikiFrame

-----------------------------------------------------------------------------
(* The runs *)

Init ==
    /\ tool \in { "potd", "wiki" }
    /\ pc = IF tool = "potd" THEN "set_headless" ELSE "w_args"
    /\ result = "none"
    /\ failedAt = "none"
    /\ outputArg \in (IF tool = "potd" THEN OutputArgs ELSE { "exists" })
    /\ bodyClass = FALSE
    /\ disabled \in (IF tool = "potd" THEN BOOLEAN ELSE { TRUE })
    /\ firstRow = 1
    /\ marker = { }
    /\ sessionCreated = FALSE
    /\ quitIssued = FALSE
    /\ res = "none"
    /\ table = ""
    /\ first_problem = None
    /\ handed = None
    /\ title = None
    /\ number = None
    /\ name = None
    /\ url = None
    /\ solution_anchor = "unqueried"
    /\ solution_href = None
    /\ potd_info = None
    /\ fileStatus = "unchanged"
    /\ fileContent = None
    /\ issued = { }
    /\ errors = { }
    /\ late = { }
    /\ lateFatal = FALSE
    /\ steps = << >>
    /\ url_ref \in (IF tool = "wiki" THEN WikiArgs ELSE { None })
    /\ httpIssued = FALSE
    /\ document = None
    /\ links = None
    /\ stdout = None

Next ==
    \/ Main_SetHeadless
    \/ Main_NewDriver
    \/ PageChanges
    \/ Scraping_Goto
    \/ Scraping_FindBody
    \/ Scraping_WaitPolls
    \/ Scraping_WaitBody
    \/ Scraping_FindDisabledTable
    \/ Scraping_WaitTable
    \/ Scraping_FindTable
    \/ Scraping_AssertTable
    \/ Scraping_FindRowgroup
    \/ Scraping_WaitMarker
    \/ Scraping_FindFirstProblem
    \/ Scraping_AssertMarker
    \/ Scraping_OpFails
    \/ ScrapePotd_FindAnchor
    \/ ScrapePotd_InnerHtml
    \/ ScrapePotd_Href
    \/ ScrapePotd_FindSolutionCell
    \/ ScrapePotd_QuerySolution
    \/ ScrapePotd_SolutionHref
    \/ Scraping_Write
    \/ Main_Quit
    \/ WikiMain_Args
    \/ FetchWikiLinks_Assert
    \/ FetchWikiLinks_Get
    \/ FetchWikiLinks_Select
    \/ WikiMain_Print

Spec == Init /\ [][Next]_vars

-----------------------------------------------------------------------------
(* Properties *)

PotdDone == tool = "potd" /\ pc = "done"

(* C1: in the POTD tool, once the session was created, quit is issued on    *)
(* every exit path (Ok, Err, panic) before the process reports its result.  *)
C1_QuitOnEveryExit ==
    (PotdDone /\ sessionCreated) => quitIssued

(* C2: in the POTD tool, a run whose output path does not exist fails with   *)
(* no session created and no navigation or page query issued.               *)
C2_PathCheckedBeforeNetwork ==
    (tool = "potd" /\ outputArg = "nonexistent") =>
        /\ ~sessionCreated
        /\ issued = { }
        /\ (pc = "done" => result # "ok")

(* the pattern ^/wiki/[^"]+$, read off the specification *)
MatchesWikiPattern(s) ==
    /\ Len(s) >= 7
    /\ \A i \in 1 .. 6 : s[i] = WikiPrefix[i]
    /\ "\"" \notin { s[i] : i \in 7 .. Len(s) }

(* C3: in the wiki tool, an input reference that does not match              *)
(* ^/wiki/[^"]+$ aborts the run and no HTTP GET is ever issued.             *)
C3_InvalidRefNoNetwork ==
    (tool = "wiki" /\ url_ref # None /\ ~MatchesWikiPattern(url_ref[1])) =>
        /\ ~httpIssued
        /\ document = None
        /\ (pc = "done" => result = "panic")

HttpsRef ==
    << "h","t","t","p","s",":","/","/","e","n",".","w","i","k","i","p","e","d",
       "i","a",".","o","r","g","/","w","i","k","i","/","R","u","s","t" >>

C3_Witness ==
    /\ tool = "wiki" /\ pc = "done" /\ result = "panic" /\ failedAt = "w_assert"
    /\ url_ref = Some(HttpsRef)
    /\ ~httpIssued

ScrapePotdEntered ==
    \/ pc \in { "sp_find_anchor", "sp_inner_html", "sp_href", "sp_find_cell",
                "sp_query_solution", "sp_solution_href", "write" }
    \/ title # None
    \/ potd_info # None
    \/ fileStatus # "unchanged"
    \/ issued \cap { "sp_find_anchor", "sp_inner_html" } # { }

(* C4: in the POTD tool, a row that lacks the marker icon is never passed to *)
(* scrape_potd and never written to the output file, also when it is the    *)
(* first row the row query returns.                                         *)
C4_UnmarkedRowNeverSelected ==
    tool = "potd" =>
        /\ (handed # None => handed[1].marked)
        /\ (ScrapePotdEntered => handed # None)

C4_Witness ==
    /\ PotdDone /\ result = "panic" /\ failedAt = "assert_marker"
    /\ first_problem # None /\ first_problem[1] \notin marker
    /\ "wait_marker" \in issued
    /\ handed = None /\ fileStatus = "unchanged"

Failed == pc = "done" /\ result \in { "err", "panic" }

(* C5 as stated: in every run of either tool that ends in failure nothing    *)
(* was emitted (output file unchanged, nothing printed).                    *)
C5_NoEmissionOnFailure ==
    Failed => (fileStatus = "unchanged" /\ stdout = None)

(* C5 as amended: output is emitted only after a complete record or list was *)
(* produced, a run that fails before its emission step emits nothing, and   *)
(* a run that ends Ok has emitted; a POTD run can still end in failure with *)
(* the file changed when the write itself or the session quit fails.        *)
C5_EmissionOnlyAfterCompletion ==
    /\ (fileStatus # "unchanged" =>
            potd_info # None /\ failedAt \in { "none", "write", "quit" })
    /\ (fileStatus = "written" =>
            DOMAIN fileContent.potd \in
                { { "number", "name", "url", "date" },
                  { "number", "name", "url", "solution_url", "date" } })
    /\ (stdout # None => links # None /\ stdout = links /\ result = "ok")
    /\ ((Failed /\ failedAt \notin { "write", "quit" }) =>
            fileStatus = "unchanged" /\ stdout = None)
    /\ ((pc = "done" /\ result = "ok") =>
            IF tool = "potd" THEN fileStatus = "written" ELSE stdout # None)

C5_Witness ==
    /\ PotdDone /\ result = "err" /\ failedAt = "quit"
    /\ fileStatus = "written"

(* C6 as stated: in the POTD tool every error returned by a session          *)
(* operation aborts the run and is surfaced, with no further page query     *)
(* issued after the first error.                                            *)
C6_NoErrorRecovered ==
    tool = "potd" =>
        /\ late = { }
        /\ ((pc = "done" /\ errors # { }) => result = "err")

(* C6 as amended: every error returned by a session operation other than the *)
(* lookup of the disabled table container (lines 87-89) aborts the run and  *)
(* is surfaced, with no page query issued after it; the error of that one   *)
(* lookup is handled by looking the container up without the marker class.  *)
C6_OnlyTableLookupRecovered ==
    tool = "potd" =>
        /\ ~lateFatal
        /\ ((pc = "done" /\ (errors \ { "find_disabled" }) # { }) => result = "err")
        /\ (late # { } => ("find_disabled" \in errors /\ "find_table" \in late))
        /\ (res = "err" => pc \in { "quit", "done" })

C6_Witness ==
    /\ PotdDone /\ result = "err" /\ quitIssued
    /\ errors = { "find_disabled", "wait_marker" }
    /\ "find_table" \in late

(* C7: in the POTD tool, with no solution anchor scrape_potd succeeds with   *)
(* solution_url None (not an empty text) and the written potd section has   *)
(* no solution_url key; with an anchor, solution_url is the base domain     *)
(* followed by the anchor's href.                                           *)
C7_SolutionUrlOptional ==
    tool = "potd" =>
        /\ (solution_anchor = "absent" =>
                /\ potd_info # None
                /\ potd_info[1].solution_url = None
                /\ failedAt \notin { "sp_query_solution", "sp_solution_href" })
        /\ ((solution_anchor = "absent" /\ fileStatus = "written") =>
                "solution_url" \notin DOMAIN fileContent.potd)
        /\ ((solution_anchor = "present" /\ potd_info # None) =>
                /\ solution_href # None
                /\ potd_info[1].solution_url = Some(LEETCODE_DOMAIN \o solution_href[1]))
        /\ ((solution_anchor = "present" /\ fileStatus = "written") =>
                fileContent.potd.solution_url = LEETCODE_DOMAIN \o solution_href[1])

C7_Witness ==
    /\ tool = "potd" /\ solution_anchor = "absent" /\ fileStatus = "written"
    /\ DOMAIN fileContent.potd = { "number", "name", "url", "date" }

(* the positions of the anchors the claim selects *)
WikiPositions(as) ==
    { i \in 1 .. Len(as) :
        /\ as[i].inContent /\ as[i].inP /\ as[i].href # None
        /\ MatchesWikiPattern(as[i].href[1]) }

(* the k-th smallest member of a set of positions *)
KthPosition(S, k) == CHOOSE i \in S : Cardinality({ j \in S : j <= i }) = k

(* C8: for a page with a body-content container fetch_wiki_links returns     *)
(* exactly the hrefs of the paragraph anchors inside it that match          *)
(* ^/wiki/[^"]+$, in document order, repeats kept.                          *)
C8_LinksAreMatchingSubsequence ==
    tool = "wiki" =>
        /\ (links # None =>
              LET as  == document[1].anchors
                  pos == WikiPositions(as)
              IN  /\ document[1].bodyContent
                  /\ Len(links[1]) = Cardinality(pos)
                  /\ \A k \in 1 .. Len(links[1]) :
                        links[1][k] = as[KthPosition(pos, k)].href[1])
        /\ ((document # None /\ pc \in { "w_print", "done" } /\ document[1].bodyContent)
                => links # None)

C8_Witness ==
    /\ tool = "wiki" /\ links # None
    /\ Len(document[1].anchors) = 3
    /\ document[1].anchors[2].href = Some(<< "#", "c" >>)
    /\ links = Some(<< << "/", "w", "i", "k", "i", "/", "O" >>,
                       << "/", "w", "i", "k", "i", "/", "R" >> >>)

(* ---- decimal texts, for C9 ---- *)

IsDigits(s) == s # << >> /\ \A i \in 1 .. Len(s) : s[i] \in DigitChars

RECURSIVE StripZeros(_)
(* a digit text without its leading zeros ("0" for a text of zeros) *)
StripZeros(s) ==
    IF Len(s) <= 1 THEN s
    ELSE IF Head(s) = "0" THEN StripZeros(Tail(s)) ELSE s

DigitChar(d) ==
    CASE d = 0 -> "0" [] d = 1 -> "1" [] d = 2 -> "2" [] d = 3 -> "3" [] d = 4 -> "4"
      [] d = 5 -> "5" [] d = 6 -> "6" [] d = 7 -> "7" [] d = 8 -> "8" [] d = 9 -> "9"

RECURSIVE Decimal(_)
(* the decimal text of the u32 <<high, low>> *)
Decimal(v) ==
    LET t == (v[1] % 10) * LimbBase + v[2]
        q == << v[1] \div 10, t \div 10 >>
    IN  IF q = << 0, 0 >> THEN << DigitChar(t % 10) >>
        ELSE Decimal(q) \o << DigitChar(t % 10) >>

U32MaxText == << "4", "2", "9", "4", "9", "6", "7", "2", "9", "5" >>

(* a digit text whose value is at most 4294967295 *)
InU32Range(s) ==
    LET c == StripZeros(s)
    IN  \/ Len(c) < Len(U32MaxText)
        \/ /\ Len(c) = Len(U32MaxText)
           /\ \/ c = U32MaxText
              \/ \E i \in 1 .. Len(c) :
                    /\ \A j \in 1 .. (i - 1) : c[j] = U32MaxText[j]
                    /\ DigitValue(c[i]) < DigitValue(U32MaxText[i])

HasSeparator(t) == \E i \in 1 .. (Len(t) - 1) : t[i] = "." /\ t[i + 1] = " "

(* the text before the first ". " of a text that has one *)
PrefixOf(t) ==
    LET i == CHOOSE k \in 1 .. (Len(t) - 1) :
                 /\ t[k] = "." /\ t[k + 1] = " "
                 /\ \A j \in 1 .. (k - 1) : ~(t[j] = "." /\ t[j + 1] = " ")
    IN  SubSeq(t, 1, i - 1)

(* what str::parse::<u32> accepts: digits, after at most one "+", in range *)
ValidU32Text(p) ==
    LET d == IF p # << >> /\ Head(p) = "+" THEN Tail(p) ELSE p
    IN  IsDigits(d) /\ InU32Range(d)

NoRecord ==
    /\ number = None /\ name = None /\ potd_info = None
    /\ fileStatus = "unchanged"
    /\ PotdDone /\ result = "panic"

(* a non-negative integer of any size: digits, after at most one "+" *)
ValidNatText(p) ==
    LET d == IF p # << >> /\ Head(p) = "+" THEN Tail(p) ELSE p
    IN  IsDigits(d)

(* C9 as stated: every title "<N>. <T>" with <N> a non-negative integer and  *)
(* <T> non-empty is split on the first ". " into number = N and name = T;   *)
(* a title without ". ", or whose prefix is no valid non-negative integer,  *)
(* fails and produces no record.                                            *)
C9_SplitsEveryNumberedTitle ==
    tool = "potd" =>
        /\ \A n \in NumberTexts, t \in NameTexts :
              (IsDigits(n) /\ t # << >> /\ title = Some(n \o Separator \o t)) =>
                  /\ number # None /\ Decimal(number[1]) = StripZeros(n)
                  /\ name = Some(t)
        /\ ((title # None /\ (~HasSeparator(title[1])
                                 \/ ~ValidNatText(PrefixOf(title[1])))) => NoRecord)

(* C9 as amended: the same for <N> of at most 4294967295 (the number is a    *)
(* u32); a title without ". ", or whose prefix is not such a number written *)
(* in digits after at most one "+", panics and produces no record.          *)
C9_SplitsNumberedTitleInU32 ==
    tool = "potd" =>
        /\ \A n \in NumberTexts, t \in NameTexts :
              (IsDigits(n) /\ InU32Range(n) /\ t # << >>
                  /\ title = Some(n \o Separator \o t)) =>
                  /\ number # None /\ Decimal(number[1]) = StripZeros(n)
                  /\ name = Some(t)
        /\ ((title # None /\ (~HasSeparator(title[1])
                                 \/ ~ValidU32Text(PrefixOf(title[1])))) => NoRecord)

C9_Witness ==
    /\ tool = "potd"
    /\ title = Some(U32MaxText \o Separator \o << "A", ".", " ", "B" >>)
    /\ number = Some(<< 65535, 65535 >>)
    /\ name = Some(<< "A", ".", " ", "B" >>)
    /\ fileStatus = "written"

(* C10: in every POTD run that reaches extraction the discovery steps came   *)
(* in this order before scrape_potd is called: body seen with a non-empty   *)
(* class, table container seen without pointer-events-none, first row seen  *)
(* with the marker, marker verified on the row handed over with the very    *)
(* selector of the wait; no step is skipped, also when the disabled         *)
(* container is not found by the first query.                               *)
C10_DiscoveryOrder ==
    (tool = "potd" /\ (handed # None \/ ScrapePotdEntered)) =>
        /\ Len(steps) = 4
        /\ steps[1].step = "body_hydrated"
        /\ steps[2].step = "table_enabled" /\ steps[2].sel = table
        /\ steps[3].step = "marker_waited"
        /\ steps[4].step = "marker_verified"
        /\ steps[4].sel = steps[3].sel

C10_Witness ==
    /\ tool = "potd" /\ handed # None
    /\ "find_disabled" \in errors
    /\ table = TableSelector
    /\ Len(steps) = 4

====
